---------------------------- MODULE Spec2Model ----------------------------
(***************************************************************************)
(* Auto scroll marshal of react-beautiful-dnd                              *)
(* (src/state/auto-scroll-marshal/auto-scroll-marshal.js).                 *)
(*                                                                         *)
(* The marshal is told of every state change of the drag store.  During a  *)
(* FLUID drag it schedules window / droppable scrolls on the next          *)
(* animation frame (raf-schd); during a JUMP drag it scrolls or moves the  *)
(* dragged item synchronously; when the drag ends it cancels what is still *)
(* scheduled.                                                              *)
(*                                                                         *)
(* Numbers are JavaScript numbers in the source.  They are modelled as     *)
(* exact rationals <<numerator, denominator>> in lowest terms, so that     *)
(* the speed curve (a square of a quotient) is computed, not abstracted.   *)
(* A nullable value (?T) is the empty tuple (null) or a one-element tuple. *)
(***************************************************************************)
EXTENDS Integers, Sequences, FiniteSets, TLC

----------------------------------------------------------------------------
(* Nullable values *)

null == <<>>

Some(v) == <<v>>

IsNull(v) == Len(v) = 0

----------------------------------------------------------------------------
(* Number arithmetic *)

Abs(n) == IF n < 0 THEN -n ELSE n

RECURSIVE GCD(_, _)
GCD(a, b) == IF b = 0 THEN a ELSE GCD(b, a % b)

\* the number n / d, d # 0, in lowest terms with a positive denominator
Num(n, d) ==
  LET g == GCD(Abs(n), Abs(d))
      s == IF d < 0 THEN -1 ELSE 1
  IN  << (s * n) \div g, Abs(d) \div g >>

N(n) == << n, 1 >>

Plus(a, b) == Num(a[1] * b[2] + b[1] * a[2], a[2] * b[2])

Minus(a, b) == Num(a[1] * b[2] - b[1] * a[2], a[2] * b[2])

Times(a, b) == Num(a[1] * b[1], a[2] * b[2])

Over(a, b) == Num(a[1] * b[2], a[2] * b[1])

Less(a, b) == a[1] * b[2] < b[1] * a[2]

LessEq(a, b) == a[1] * b[2] <= b[1] * a[2]

----------------------------------------------------------------------------
(* Positions and areas *)

Pos(x, y) == [x |-> N(x), y |-> N(y)]

origin == Pos(0, 0)

add(point1, point2) ==
  [x |-> Plus(point1.x, point2.x), y |-> Plus(point1.y, point2.y)]

isEqual(point1, point2) == point1.x = point2.x /\ point1.y = point2.y

\* an Area with its top left corner at (left, top)
Area(top, left, width, height) ==
  [top |-> N(top), right |-> N(left + width), bottom |-> N(top + height),
   left |-> N(left), width |-> N(width), height |-> N(height)]

\* axis descriptors: the field names of one logical axis
vertical == [direction |-> "vertical", size |-> "height"]

horizontal == [direction |-> "horizontal", size |-> "width"]

----------------------------------------------------------------------------
(* The fluid speed curve *)

maxScrollSpeed == 28

\* the ease function as a plausible slip would write it: linear
easeLinear(percentage) == percentage

ease(percentage) == Times(percentage, percentage)

\* the thresholds as a slip would write them: the top speed comes too late
configLateMaxSpeed ==
  [startFrom |-> Num(1, 4), maxSpeedAt |-> Num(1, 100),
   maxScrollSpeed |-> N(maxScrollSpeed)]

config ==
  [startFrom |-> Num(25, 100), maxSpeedAt |-> Num(5, 100),
   maxScrollSpeed |-> N(maxScrollSpeed)]

getPixelThresholds(container, axis) ==
  LET startFrom == Times(container[axis.size], config.startFrom)
      maxSpeedAt == Times(container[axis.size], config.maxSpeedAt)
      accelerationPlane == Minus(startFrom, maxSpeedAt)
  IN  [startFrom |-> startFrom, maxSpeedAt |-> maxSpeedAt,
       accelerationPlane |-> accelerationPlane]

\* the speed as a slip would write it: the cap at maxSpeedAt is forgotten
getSpeedUncapped(distance, thresholds) ==
  IF LessEq(thresholds.startFrom, distance) THEN N(0)
  ELSE LET distancePastStart == Minus(thresholds.startFrom, distance)
           percentage == Over(distancePastStart, thresholds.accelerationPlane)
           transformed == ease(percentage)
       IN  Times(config.maxScrollSpeed, transformed)

getSpeed(distance, thresholds) ==
  IF LessEq(thresholds.startFrom, distance) THEN N(0)
  ELSE IF LessEq(distance, thresholds.maxSpeedAt) THEN config.maxScrollSpeed
  ELSE LET distancePastStart == Minus(thresholds.startFrom, distance)
           percentage == Over(distancePastStart, thresholds.accelerationPlane)
           transformed == ease(percentage)
       IN  Times(config.maxScrollSpeed, transformed)

\* the axis speed as a slip would write it: the signs are the wrong way round
getAxisScrollAway(thresholds, toFarEdge, toNearEdge) ==
  LET isCloserToFarEdge == Less(toFarEdge, toNearEdge)
  IN  IF isCloserToFarEdge THEN Times(N(-1), getSpeed(toFarEdge, thresholds))
      ELSE getSpeed(toNearEdge, thresholds)

\* the speed along one axis (the anonymous functions of lines 115 - 125 and
\* 127 - 137): positive towards the far edge (bottom, right) when the center
\* is closer to it, negative towards the near edge (top, left) otherwise
getAxisScroll(thresholds, toFarEdge, toNearEdge) ==
  LET isCloserToFarEdge == Less(toFarEdge, toNearEdge)
  IN  IF isCloserToFarEdge THEN getSpeed(toFarEdge, thresholds)
      ELSE Times(N(-1), getSpeed(toNearEdge, thresholds))

\* the result of getRequiredScroll: null if no scroll is required
nullIfOrigin(required) ==
  IF isEqual(required, origin) THEN null ELSE Some(required)

\* lines 99 - 104: the distance of the center to each edge of the container
getDistance(container, center) ==
  [top |-> Minus(center.y, container.top),
   right |-> Minus(container.right, center.x),
   bottom |-> Minus(container.bottom, center.y),
   left |-> Minus(center.x, container.left)]

getRequiredScroll(container, center) ==
  LET distance == getDistance(container, center)
  IN  nullIfOrigin(
        [x |-> getAxisScroll(getPixelThresholds(container, horizontal),
                             distance.right, distance.left),
         y |-> getAxisScroll(getPixelThresholds(container, vertical),
                             distance.bottom, distance.top)])

\* the check as a slip would write it: the height is forgotten
isTooWideForAutoScrolling(frame, subject) == Less(frame.width, subject.width)

isTooBigForAutoScrolling(frame, subject) ==
  Less(frame.width, subject.width) \/ Less(frame.height, subject.height)

----------------------------------------------------------------------------
(* What a handler does to the outside world: the trace of its calls *)

\* one call of an external function: its name, arguments and result.
\* frame is null for a call made synchronously by the marshal, and names the
\* animation frame request for a call made by an animation frame callback.
Call(op, args, ret) == [op |-> op, args |-> args, ret |-> ret, frame |-> null]

FrameCall(op, args, request) ==
  [op |-> op, args |-> args, ret |-> null, frame |-> Some(request)]

----------------------------------------------------------------------------
(* The state snapshots the marshal is given *)

Phases == {"IDLE", "DRAGGING", "DROP_ANIMATING"}

DraggableIds == {"item"}

DroppableIds == {"list", "plain"}

\* what getViewport() answers
Viewports == {Area(0, 0, 40, 40)}

\* the frame of the closest scrollable of droppable "list"
listFrame == Area(10, 10, 20, 20)

\* state.dimension.droppable: "list" has a closest scrollable, "plain" none
droppables ==
  [id \in DroppableIds |->
     [descriptor |-> [id |-> id],
      viewport |-> [closestScrollable |->
                      IF id = "list" THEN Some([frame |-> listFrame])
                      ELSE null]]]

\* draggable.page.withMargin: fits both; wider / taller than the list frame;
\* wider / taller than the viewport
Margins ==
  {Area(15, 15, 10, 10), Area(15, 5, 30, 10), Area(5, 15, 10, 30),
   Area(15, 0, 50, 10), Area(0, 15, 10, 50)}

\* drag.current.page.center: in the middle of both; near the bottom right
\* corner of the viewport; at the bottom of the viewport; near the bottom
\* left corner of the list frame and away from the edges of the viewport
Centers == {Pos(20, 20), Pos(33, 37), Pos(20, 38), Pos(12, 27)}

\* drag.current.client.selection
Selections == {Pos(20, 20)}

\* the number of different jump requests
MaxRequests == 1

\* drag.scrollJumpRequest
Requests == {null} \cup {Some(Pos(-3 * k, 5 * k)) : k \in 1 .. MaxRequests}

\* drag.impact.destination
Destinations ==
  {null} \cup {Some([droppableId |-> id, index |-> 0]) : id \in DroppableIds}

\* a fluid drag carries no jump request; a jump drag keeps its center
Drags ==
  {[initial |-> [descriptor |-> [id |-> id], autoScrollMode |-> mode],
    current |-> [page |-> [center |-> center],
                 client |-> [selection |-> selection]],
    scrollJumpRequest |-> request,
    impact |-> [destination |-> destination]] :
     id \in DraggableIds, mode \in {"FLUID"}, center \in Centers,
     selection \in Selections, request \in {null},
     destination \in {Some([droppableId |-> "list", index |-> 0])}}
  \cup
  {[initial |-> [descriptor |-> [id |-> id], autoScrollMode |-> mode],
    current |-> [page |-> [center |-> center],
                 client |-> [selection |-> selection]],
    scrollJumpRequest |-> request,
    impact |-> [destination |-> destination]] :
     id \in DraggableIds, mode \in {"JUMP"}, center \in {Pos(20, 20)},
     selection \in Selections, request \in Requests,
     destination \in Destinations}

Dimensions ==
  {[draggable |-> [id \in DraggableIds |-> [page |-> [withMargin |-> margin]]],
    droppable |-> droppables] : margin \in Margins}

\* the snapshots of the store: a drag payload only while dragging (the
\* marshal must also cope with a dragging phase that has none)
States ==
  {[phase |-> phase, drag |-> drag, dimension |-> dimension] :
     phase \in Phases \ {"DRAGGING"}, drag \in {null},
     dimension \in {CHOOSE d \in Dimensions : TRUE}}
  \cup
  {[phase |-> phase, drag |-> drag, dimension |-> dimension] :
     phase \in {"DRAGGING"}, drag \in {null} \cup {Some(d) : d \in Drags},
     dimension \in Dimensions}

\* what is left over of a change that a target cannot scroll
Overlaps == {null, Some(Pos(0, 2))}

\* the answers of the collaborators during one call of onStateChange
Envs ==
  [viewport : Viewports,
   windowScroll : {origin},
   canScrollWindow : BOOLEAN,
   canScrollDroppable : BOOLEAN,
   scrollableDroppableOver :
     {null} \cup {Some(id) : id \in {i \in DroppableIds :
                     ~IsNull(droppables[i].viewport.closestScrollable)}},
   windowOverlap : Overlaps,
   droppableOverlap : Overlaps]

----------------------------------------------------------------------------
(* The handlers, as the trace of calls each makes for a snapshot and the   *)
(* answers env of its collaborators                                        *)

\* the end of fluidScroll as a slip would write it: the answer of
\* canScrollDroppable is not looked at
fluidScrollFrameUnasked(droppable, requiredFrameScroll, trace, env) ==
  IF IsNull(requiredFrameScroll) THEN trace
  ELSE trace \o
       << Call("canScrollDroppable",
               <<droppable.descriptor.id, requiredFrameScroll[1]>>,
               Some(env.canScrollDroppable)),
          Call("scheduleDroppableScroll",
               <<droppable.descriptor.id, requiredFrameScroll[1]>>, null) >>

\* lines 199 - 203 of fluidScroll: the droppable is scrolled if it can be
fluidScrollFrame(droppable, requiredFrameScroll, trace, env) ==
  IF IsNull(requiredFrameScroll) THEN trace
  ELSE IF env.canScrollDroppable
  THEN trace \o
       << Call("canScrollDroppable",
               <<droppable.descriptor.id, requiredFrameScroll[1]>>, Some(TRUE)),
          Call("scheduleDroppableScroll",
               <<droppable.descriptor.id, requiredFrameScroll[1]>>, null) >>
  ELSE Append(trace, Call("canScrollDroppable",
                          <<droppable.descriptor.id, requiredFrameScroll[1]>>,
                          Some(FALSE)))

\* lines 180 - 203 of fluidScroll: the window is not scrolled
fluidScrollDroppable(state, center, draggable, over, trace, env) ==
  IF IsNull(over) THEN trace
  ELSE
  LET droppable == state.dimension.droppable[over[1]]
      closestScrollable == droppable.viewport.closestScrollable[1]
  IN
  IF isTooBigForAutoScrolling(closestScrollable.frame, draggable.page.withMargin)
  THEN trace
  ELSE fluidScrollFrame(
         droppable, getRequiredScroll(closestScrollable.frame, center),
         Append(trace, Call("getRequiredScroll",
                            <<closestScrollable.frame, center>>, null)),
         env)

\* fluidScrollWindow as a slip would write it: the return after scheduling
\* the window scroll is forgotten
fluidScrollWindowNoReturn(state, center, draggable, requiredWindowScroll, trace, env) ==
  fluidScrollDroppable(
    state, center, draggable, env.scrollableDroppableOver,
    (IF IsNull(requiredWindowScroll) THEN trace
     ELSE IF env.canScrollWindow
     THEN trace \o
          << Call("canScrollWindow", requiredWindowScroll, Some(TRUE)),
             Call("scheduleWindowScroll", requiredWindowScroll, null) >>
     ELSE Append(trace, Call("canScrollWindow", requiredWindowScroll,
                             Some(FALSE))))
    \o << Call("getScrollableDroppableOver", <<center>>,
               env.scrollableDroppableOver) >>,
    env)

\* lines 175 - 203 of fluidScroll: the window is scrolled if it can be
fluidScrollWindow(state, center, draggable, requiredWindowScroll, trace, env) ==
  IF ~IsNull(requiredWindowScroll) /\ env.canScrollWindow
  THEN trace \o
       << Call("canScrollWindow", requiredWindowScroll, Some(TRUE)),
          Call("scheduleWindowScroll", requiredWindowScroll, null) >>
  ELSE fluidScrollDroppable(
         state, center, draggable, env.scrollableDroppableOver,
         (IF IsNull(requiredWindowScroll) THEN trace
          ELSE Append(trace, Call("canScrollWindow", requiredWindowScroll,
                                  Some(FALSE))))
         \o << Call("getScrollableDroppableOver", <<center>>,
                    env.scrollableDroppableOver) >>,
         env)

\* fluidScroll as a slip would write it: no check of the size of the item
\* against the viewport
fluidScrollUnguarded(state, env) ==
  LET drag == state.drag IN
  IF IsNull(drag) THEN << Call("console.error", <<"Invalid drag state">>, null) >>
  ELSE
  LET center == drag[1].current.page.center
      draggable == state.dimension.draggable[drag[1].initial.descriptor.id]
      viewport == env.viewport
  IN  fluidScrollWindow(
        state, center, draggable, getRequiredScroll(viewport, center),
        << Call("getViewport", <<>>, Some(viewport)),
           Call("getRequiredScroll", <<viewport, center>>, null) >>,
        env)

fluidScroll(state, env) ==
  LET drag == state.drag IN
  IF IsNull(drag) THEN << Call("console.error", <<"Invalid drag state">>, null) >>
  ELSE
  LET center == drag[1].current.page.center
      draggable == state.dimension.draggable[drag[1].initial.descriptor.id]
      viewport == env.viewport
  IN
  IF isTooBigForAutoScrolling(viewport, draggable.page.withMargin)
  THEN << Call("getViewport", <<>>, Some(viewport)) >>
  ELSE fluidScrollWindow(
         state, center, draggable, getRequiredScroll(viewport, center),
         << Call("getViewport", <<>>, Some(viewport)),
            Call("getRequiredScroll", <<viewport, center>>, null) >>,
         env)

performMove(state, offset, env) ==
  LET drag == state.drag IN
  IF IsNull(drag) THEN << >>
  ELSE
  LET client == add(drag[1].current.client.selection, offset)
  IN  << Call("getWindowScrollPosition", <<>>, Some(env.windowScroll)),
         Call("move", <<drag[1].initial.descriptor.id, client,
                        env.windowScroll, TRUE>>, null) >>

\* jumpScrollWindow as slips would write it: a window that cannot scroll
\* drops the request; the window is scrolled before the item is moved
jumpScrollWindowDropsRequest(state, request, draggable, env) ==
  LET t1 == << Call("getViewport", <<>>, Some(env.viewport)) >> IN
  IF isTooBigForAutoScrolling(env.viewport, draggable.page.withMargin)
  THEN t1 \o performMove(state, request, env)
  ELSE
  LET t2 == Append(t1, Call("canScrollWindow", <<request>>, Some(env.canScrollWindow)))
  IN
  IF ~env.canScrollWindow THEN t2
  ELSE
  LET overlap == env.windowOverlap
      t3 == Append(t2, Call("getWindowOverlap", <<request>>, overlap))
  IN  (IF ~IsNull(overlap) THEN t3 \o performMove(state, overlap[1], env) ELSE t3)
      \o << Call("scrollWindow", <<request>>, null) >>

jumpScrollWindowMovesLate(state, request, draggable, env) ==
  LET t1 == << Call("getViewport", <<>>, Some(env.viewport)) >> IN
  IF isTooBigForAutoScrolling(env.viewport, draggable.page.withMargin)
  THEN t1 \o performMove(state, request, env)
  ELSE
  LET t2 == Append(t1, Call("canScrollWindow", <<request>>, Some(env.canScrollWindow)))
  IN
  IF ~env.canScrollWindow THEN t2 \o performMove(state, request, env)
  ELSE
  LET overlap == env.windowOverlap
      t3 == t2 \o << Call("getWindowOverlap", <<request>>, overlap),
                     Call("scrollWindow", <<request>>, null) >>
  IN  IF ~IsNull(overlap) THEN t3 \o performMove(state, overlap[1], env) ELSE t3

\* the part of jumpScroll that handles the window (lines 266 - 287)
jumpScrollWindow(state, request, draggable, env) ==
  LET t1 == << Call("getViewport", <<>>, Some(env.viewport)) >> IN
  IF isTooBigForAutoScrolling(env.viewport, draggable.page.withMargin)
  THEN t1 \o performMove(state, request, env)
  ELSE
  LET t2 == Append(t1, Call("canScrollWindow", <<request>>, Some(env.canScrollWindow)))
  IN
  IF ~env.canScrollWindow
  THEN Append(t2, Call("console.warn", <<"Jump scroll requested but it cannot be done by Droppable or the Window">>, null))
       \o performMove(state, request, env)
  ELSE
  LET overlap == env.windowOverlap
      t3 == Append(t2, Call("getWindowOverlap", <<request>>, overlap))
      t4 == IF ~IsNull(overlap)
            THEN Append(t3, Call("console.warn", <<"WINDOW OVERLAP">>, null))
                 \o performMove(state, overlap[1], env)
            ELSE t3
  IN  Append(t4, Call("scrollWindow", <<request>>, null))

\* jumpScrollDroppable as slips would write it: the item is moved by the
\* whole request, not by the overlap; the scroll is scheduled, not performed
jumpScrollDroppableMovesAll(state, request, droppable, env) ==
  LET overlap == env.droppableOverlap
      asked == << Call("canScrollDroppable", <<droppable.descriptor.id, request>>,
                       Some(TRUE)),
                  Call("canScrollWindow", <<request>>, Some(env.canScrollWindow)) >>
      adjusted ==
        IF env.canScrollWindow THEN asked
        ELSE Append(asked, Call("getDroppableOverlap",
                                <<droppable.descriptor.id, request>>, overlap))
             \o (IF IsNull(overlap) THEN << >>
                 ELSE performMove(state, request, env))
  IN  Append(adjusted, Call("scrollDroppable",
                            <<droppable.descriptor.id, request>>, null))

jumpScrollDroppableScheduled(state, request, droppable, env) ==
  LET overlap == env.droppableOverlap
      asked == << Call("canScrollDroppable", <<droppable.descriptor.id, request>>,
                       Some(TRUE)),
                  Call("canScrollWindow", <<request>>, Some(env.canScrollWindow)) >>
      adjusted ==
        IF env.canScrollWindow THEN asked
        ELSE Append(asked, Call("getDroppableOverlap",
                                <<droppable.descriptor.id, request>>, overlap))
             \o (IF IsNull(overlap) THEN << >>
                 ELSE performMove(state, overlap[1], env))
  IN  Append(adjusted, Call("scheduleDroppableScroll",
                            <<droppable.descriptor.id, request>>, null))

\* jumpScrollDroppable as another slip would write it: the item is adjusted
\* for the overlap whether or not the window can scroll
jumpScrollDroppableAlwaysAdjusts(state, request, droppable, env) ==
  LET overlap == env.droppableOverlap
      asked == << Call("canScrollDroppable", <<droppable.descriptor.id, request>>,
                       Some(TRUE)),
                  Call("canScrollWindow", <<request>>, Some(env.canScrollWindow)),
                  Call("getDroppableOverlap",
                       <<droppable.descriptor.id, request>>, overlap) >>
      adjusted ==
        IF IsNull(overlap) THEN asked
        ELSE Append(asked, Call("console.warn", <<"DROPPABLE OVERLAP">>, null))
             \o performMove(state, overlap[1], env)
  IN  Append(adjusted, Call("scrollDroppable",
                            <<droppable.descriptor.id, request>>, null))

\* lines 247 - 260 of jumpScroll: the droppable can scroll
jumpScrollDroppable(state, request, droppable, env) ==
  LET overlap == env.droppableOverlap
      asked == << Call("canScrollDroppable", <<droppable.descriptor.id, request>>,
                       Some(TRUE)),
                  Call("canScrollWindow", <<request>>, Some(env.canScrollWindow)) >>
      adjusted ==
        IF env.canScrollWindow THEN asked
        ELSE Append(asked, Call("getDroppableOverlap",
                                <<droppable.descriptor.id, request>>, overlap))
             \o (IF IsNull(overlap) THEN << >>
                 ELSE << Call("console.warn", <<"DROPPABLE OVERLAP">>, null) >>
                      \o performMove(state, overlap[1], env))
  IN  Append(adjusted, Call("scrollDroppable",
                            <<droppable.descriptor.id, request>>, null))

\* jumpScrollTo as a slip would write it: no return after the move of an
\* item that is too big for the frame
jumpScrollToNoReturn(state, request, draggable, destination, env) ==
  LET droppable == state.dimension.droppable[destination.droppableId]
      closestScrollable == droppable.viewport.closestScrollable
      moved ==
        IF isTooBigForAutoScrolling(closestScrollable[1].frame,
                                    draggable.page.withMargin)
        THEN performMove(state, request, env)
        ELSE << >>
  IN
  IF IsNull(closestScrollable)
  THEN jumpScrollWindow(state, request, draggable, env)
  ELSE IF env.canScrollDroppable
  THEN moved \o jumpScrollDroppable(state, request, droppable, env)
  ELSE moved
       \o << Call("canScrollDroppable", <<droppable.descriptor.id, request>>,
                  Some(FALSE)) >>
       \o jumpScrollWindow(state, request, draggable, env)

\* lines 237 - 287 of jumpScroll: there is a request and a destination
jumpScrollTo(state, request, draggable, destination, env) ==
  LET droppable == state.dimension.droppable[destination.droppableId]
      closestScrollable == droppable.viewport.closestScrollable
  IN
  IF IsNull(closestScrollable)
  THEN jumpScrollWindow(state, request, draggable, env)
  ELSE IF isTooBigForAutoScrolling(closestScrollable[1].frame,
                                   draggable.page.withMargin)
  THEN performMove(state, request, env)
  ELSE IF env.canScrollDroppable
  THEN jumpScrollDroppable(state, request, droppable, env)
  ELSE << Call("canScrollDroppable", <<droppable.descriptor.id, request>>,
               Some(FALSE)) >>
       \o jumpScrollWindow(state, request, draggable, env)

\* jumpScroll as a slip would write it: without a destination the item is
\* moved by the request, as it is when nothing can scroll
jumpScrollMovesWithoutDestination(state, env) ==
  LET drag == state.drag IN
  IF IsNull(drag) THEN << >>
  ELSE
  LET request == drag[1].scrollJumpRequest IN
  IF IsNull(request) THEN << >>
  ELSE
  LET draggable == state.dimension.draggable[drag[1].initial.descriptor.id]
      destination == drag[1].impact.destination
  IN
  IF IsNull(destination)
  THEN performMove(state, request[1], env)
  ELSE jumpScrollTo(state, request[1], draggable, destination[1], env)

jumpScroll(state, env) ==
  LET drag == state.drag IN
  IF IsNull(drag) THEN << >>
  ELSE
  LET request == drag[1].scrollJumpRequest IN
  IF IsNull(request) THEN << >>
  ELSE
  LET draggable == state.dimension.draggable[drag[1].initial.descriptor.id]
      destination == drag[1].impact.destination
  IN
  IF IsNull(destination)
  THEN << Call("console.error",
               <<"Cannot perform a jump scroll when there is no destination">>,
               null) >>
  ELSE jumpScrollTo(state, request[1], draggable, destination[1], env)

\* the cancellation as a slip would write it: the droppable scroll is forgotten
cancelWindowOnly(previous, current) ==
  IF previous.phase = "DRAGGING" /\ current.phase # "DRAGGING"
  THEN << Call("scheduleWindowScroll.cancel", <<>>, null) >>
  ELSE << >>

\* the cancellation as another slip would write it: previous is not looked at
cancelWheneverNotDragging(previous, current) ==
  IF current.phase # "DRAGGING"
  THEN << Call("scheduleWindowScroll.cancel", <<>>, null),
          Call("scheduleDroppableScroll.cancel", <<>>, null) >>
  ELSE << >>

\* lines 312 - 316: cancel any pending scrolls if no longer dragging
cancelIfNoLongerDragging(previous, current) ==
  IF previous.phase = "DRAGGING" /\ current.phase # "DRAGGING"
  THEN << Call("scheduleWindowScroll.cancel", <<>>, null),
          Call("scheduleDroppableScroll.cancel", <<>>, null) >>
  ELSE << >>

onStateChange(previous, current, env) ==
  IF current.phase = "DRAGGING"
  THEN IF IsNull(current.drag)
       THEN << Call("console.error", <<"invalid drag state">>, null) >>
       ELSE IF current.drag[1].initial.autoScrollMode = "FLUID"
       THEN fluidScroll(current, env)
       ELSE IF IsNull(current.drag[1].scrollJumpRequest)
       THEN << >>
       ELSE jumpScroll(current, env)
            \o cancelIfNoLongerDragging(previous, current)
  ELSE cancelIfNoLongerDragging(previous, current)

----------------------------------------------------------------------------
(* raf-schd and the animation frame queue of the browser *)

\* the collaborator whose answer each field of env is
Oracle ==
  [canScrollWindow |-> "canScrollWindow",
   canScrollDroppable |-> "canScrollDroppable",
   scrollableDroppableOver |-> "getScrollableDroppableOver",
   windowOverlap |-> "getWindowOverlap",
   droppableOverlap |-> "getDroppableOverlap"]

NotAsked ==
  [canScrollWindow |-> FALSE, canScrollDroppable |-> FALSE,
   scrollableDroppableOver |-> null, windowOverlap |-> null,
   droppableOverlap |-> null]

\* a call of onStateChange is given a snapshot and gets the answers it asks
\* for: an answer nobody asks for is no input, and is left at NotAsked
Inputs ==
  {input \in States \X Envs :
     LET trace == onStateChange(input[1], input[1], input[2]) IN
     \A field \in DOMAIN Oracle :
       \/ \E i \in 1 .. Len(trace) : trace[i].op = Oracle[field]
       \/ input[2][field] = NotAsked[field]}

VARIABLES
  current,                  \* the snapshot last given to onStateChange
  scheduleWindowScroll,     \* rafSchd(scrollWindow): lastArgs and frameId
  scheduleDroppableScroll,  \* rafSchd(scrollDroppable): lastArgs and frameId
  animationFrames,          \* the animation frame requests not yet run
  handler,                  \* what ran last
  calls,                    \* the trace of calls of what ran last
  latest,                   \* history: for each scheduler, the arguments of
                            \* its latest call in this drag since the last
                            \* animation frame
  solver                    \* the inputs and results of getRequiredScroll when
                            \* it is studied on its own, null otherwise

vars ==
  << current, scheduleWindowScroll, scheduleDroppableScroll, animationFrames,
     handler, calls, latest, solver >>

\* the marshal's own two schedulers and the browser's queue
Marshal(window, droppable, frames, trace, history) ==
  [scheduleWindowScroll |-> window, scheduleDroppableScroll |-> droppable,
   animationFrames |-> frames, calls |-> trace, latest |-> history]

\* the handle of a new request: one that no pending request has
requestAnimationFrame(frames) ==
  CHOOSE id \in 1 .. (Len(frames) + 1) :
    /\ \A i \in 1 .. Len(frames) : frames[i].id # id
    /\ \A other \in 1 .. (id - 1) : \E i \in 1 .. Len(frames) : frames[i].id = other

cancelAnimationFrame(frames, id) ==
  SelectSeq(frames, LAMBDA request : request.id # id)

\* the wrapper of raf-schd called with args: the latest arguments are kept,
\* and a frame is requested unless one is already pending.  A scheduler is a
\* single slot: lastArgs is read only while a frame is pending, so it is
\* emptied when the frame has run or is cancelled.
wrapperFn(m, name, args) ==
  LET schd == m[name] IN
  IF ~IsNull(schd.frameId)
  THEN [m EXCEPT ![name] = [schd EXCEPT !.lastArgs = args]]
  ELSE LET id == requestAnimationFrame(m.animationFrames) IN
       [m EXCEPT
          ![name] = [lastArgs |-> args, frameId |-> Some(id)],
          !.animationFrames =
             Append(@, [id |-> id, callback |-> name, pendingAtDragEnd |-> FALSE]),
          !.calls = Append(@, Call("requestAnimationFrame", <<name>>, Some(id)))]

cancel(m, name) ==
  LET schd == m[name] IN
  IF IsNull(schd.frameId) THEN m
  ELSE [m EXCEPT
          ![name] = [lastArgs |-> << >>, frameId |-> null],
          !.animationFrames = cancelAnimationFrame(@, schd.frameId[1]),
          !.calls = Append(@, Call("cancelAnimationFrame", schd.frameId, null))]

\* the callback of a request: the scheduler is free again, and the wrapped
\* function is called with the latest arguments
callback(m, request) ==
  LET name == request.callback
      schd == m[name]
      fn == IF name = "scheduleWindowScroll" THEN "scrollWindow"
            ELSE "scrollDroppable"
  IN  [m EXCEPT
         ![name] = [lastArgs |-> << >>, frameId |-> null],
         !.calls = Append(@, FrameCall(fn, schd.lastArgs, request))]

Schedulers == {"scheduleWindowScroll", "scheduleDroppableScroll"}

\* history: a call of a scheduler is the latest call of that scheduler
Noted(history, call) ==
  IF call.op \in Schedulers THEN [history EXCEPT ![call.op] = Some(call.args)]
  ELSE history

\* the two schedulers as a slip would create them: scheduleDroppableScroll
\* is the scheduler of the window scroll too
RECURSIVE PerformOneScheduler(_, _, _)
PerformOneScheduler(trace, i, m) ==
  IF i > Len(trace) THEN m
  ELSE
  LET call == trace[i]
      logged == [m EXCEPT !.calls = Append(@, call),
                          !.latest = Noted(@, call)]
  IN  PerformOneScheduler(trace, i + 1,
        CASE call.op \in {"scheduleWindowScroll", "scheduleDroppableScroll"} ->
               wrapperFn(logged, "scheduleWindowScroll", call.args)
          [] call.op = "scheduleWindowScroll.cancel" ->
               cancel(logged, "scheduleWindowScroll")
          [] call.op = "scheduleDroppableScroll.cancel" ->
               cancel(logged, "scheduleDroppableScroll")
          [] OTHER -> logged)

\* the marshal after the calls trace[i], trace[i + 1], ... of a handler
RECURSIVE Perform(_, _, _)
Perform(trace, i, m) ==
  IF i > Len(trace) THEN m
  ELSE
  LET call == trace[i]
      logged == [m EXCEPT !.calls = Append(@, call),
                          !.latest = Noted(@, call)]
  IN  Perform(trace, i + 1,
        CASE call.op = "scheduleWindowScroll" ->
               wrapperFn(logged, "scheduleWindowScroll", call.args)
          [] call.op = "scheduleDroppableScroll" ->
               wrapperFn(logged, "scheduleDroppableScroll", call.args)
          [] call.op = "scheduleWindowScroll.cancel" ->
               cancel(logged, "scheduleWindowScroll")
          [] call.op = "scheduleDroppableScroll.cancel" ->
               cancel(logged, "scheduleDroppableScroll")
          [] OTHER -> logged)

\* the marshal after the callbacks of the requests frames[i], ...
RECURSIVE RunFrames(_, _, _)
RunFrames(frames, i, m) ==
  IF i > Len(frames) THEN m
  ELSE RunFrames(frames, i + 1, callback(m, frames[i]))

\* history: the requests that are pending when the drag ends
MarkPendingAtDragEnd(previous, state, frames) ==
  IF previous.phase = "DRAGGING" /\ state.phase # "DRAGGING"
  THEN [i \in 1 .. Len(frames) |-> [frames[i] EXCEPT !.pendingAtDragEnd = TRUE]]
  ELSE frames

----------------------------------------------------------------------------
(* The state machine *)

Idle ==
  [phase |-> "IDLE", drag |-> null, dimension |-> CHOOSE d \in Dimensions : TRUE]

\* the marshal after construction (lines 152 - 153): nothing is scheduled
Constructed ==
  /\ current = Idle
  /\ scheduleWindowScroll = [lastArgs |-> << >>, frameId |-> null]
  /\ scheduleDroppableScroll = [lastArgs |-> << >>, frameId |-> null]
  /\ animationFrames = << >>
  /\ handler = "none"
  /\ calls = << >>
  /\ latest = [name \in Schedulers |-> null]

Init == Constructed /\ solver = null

\* the store tells the marshal of a state change: previous is the snapshot
\* of the call before
OnStateChange(state, env) ==
  LET previous == current
      before == Marshal(scheduleWindowScroll, scheduleDroppableScroll,
                        MarkPendingAtDragEnd(previous, state, animationFrames),
                        << >>,
                        IF state.phase = "DRAGGING" THEN latest
                        ELSE [name \in Schedulers |-> null])
  IN  \E after \in {Perform(onStateChange(previous, state, env), 1, before)} :
      /\ current' = state
      /\ latest' = after.latest
      /\ scheduleWindowScroll' = after.scheduleWindowScroll
      /\ scheduleDroppableScroll' = after.scheduleDroppableScroll
      /\ animationFrames' = after.animationFrames
      /\ handler' = "onStateChange"
      /\ calls' = after.calls
      /\ UNCHANGED solver

\* the browser renders a frame: every pending request runs, oldest first
AnimationFrame ==
  LET before == Marshal(scheduleWindowScroll, scheduleDroppableScroll, << >>,
                        << >>, latest)
  IN  \E after \in {RunFrames(animationFrames, 1, before)} :
      /\ scheduleWindowScroll' = after.scheduleWindowScroll
      /\ scheduleDroppableScroll' = after.scheduleDroppableScroll
      /\ animationFrames' = << >>
      /\ handler' = "animationFrame"
      /\ calls' = after.calls
      /\ latest' = [name \in Schedulers |-> null]
      /\ UNCHANGED << current, solver >>

Next ==
  \/ \E input \in Inputs : OnStateChange(input[1], input[2])
  \/ AnimationFrame

Spec == Init /\ [][Next]_vars

----------------------------------------------------------------------------
(* getRequiredScroll on its own: a container, and a center that moves *)

\* the containers: the viewport of the example, the viewport and the list
\* frame of the snapshots, and one whose sizes are odd
Containers ==
  {Area(0, 0, 1000, 800), Area(0, 0, 40, 40), listFrame, Area(3, 5, 30, 70)}

\* the centers that are named somewhere
NamedCenters == Centers \cup {Pos(500, 790)}

\* the number of steps from one edge of the container to the opposite edge
Steps == 20

\* the coordinates of the centers along one axis: one step before the
\* container, every step inside it and one step after it
Coordinates(start, size) ==
  {Plus(start, Times(size, Num(k, Steps))) : k \in -1 .. Steps + 1}

CoordinatesX(container) ==
  Coordinates(container.left, container.width) \cup {c.x : c \in NamedCenters}

CoordinatesY(container) ==
  Coordinates(container.top, container.height) \cup {c.y : c \in NamedCenters}

SolverCenters(container) ==
  [x : CoordinatesX(container), y : CoordinatesY(container)]

\* the coordinates next to one of them, on either side
Beside(coordinate, coordinates) ==
  {c \in coordinates :
     /\ c # coordinate
     /\ ~\E between \in coordinates :
          \/ Less(coordinate, between) /\ Less(between, c)
          \/ Less(c, between) /\ Less(between, coordinate)}

\* where the center can be after one move: one coordinate further on one axis
Neighbours(container, center) ==
  {[x |-> x, y |-> center.y] : x \in Beside(center.x, CoordinatesX(container))}
    \cup
  {[x |-> center.x, y |-> y] : y \in Beside(center.y, CoordinatesY(container))}

Edges == {"top", "right", "bottom", "left"}

axisOf(edge) == IF edge \in {"top", "bottom"} THEN vertical ELSE horizontal

\* getSpeed for the distance to every edge, and getRequiredScroll
Solved(container, center) ==
  [container |-> container, center |-> center, solved |-> TRUE,
   speed |-> [edge \in Edges |->
                getSpeed(getDistance(container, center)[edge],
                         getPixelThresholds(container, axisOf(edge)))],
   required |-> getRequiredScroll(container, center)]

SolverInit ==
  /\ Constructed
  /\ \E container \in Containers : \E center \in SolverCenters(container) :
       solver = [container |-> container, center |-> center, solved |-> FALSE,
                 speed |-> [edge \in Edges |-> N(0)], required |-> null]

marshalVars ==
  << current, scheduleWindowScroll, scheduleDroppableScroll, animationFrames,
     handler, calls, latest >>

GetRequiredScroll ==
  /\ ~solver.solved
  /\ solver' = Solved(solver.container, solver.center)
  /\ UNCHANGED marshalVars

\* the center moves along one axis, and the scroll is asked for again
MoveCenter(center) ==
  /\ solver.solved
  /\ solver' = Solved(solver.container, center)
  /\ UNCHANGED marshalVars

SolverNext ==
  \/ GetRequiredScroll
  \/ \E center \in Neighbours(solver.container, solver.center) :
       MoveCenter(center)

SolverSpec == SolverInit /\ [][SolverNext]_vars

----------------------------------------------------------------------------
(* Reading a trace *)

Made(op) == {i \in 1 .. Len(calls) : calls[i].op = op}

\* the collaborator op was asked and answered v
Said(op, v) == \E i \in Made(op) : calls[i].ret = Some(v)

\* the calls made by animation frame callbacks
ByFrame == {i \in 1 .. Len(calls) : ~IsNull(calls[i].frame)}

\* the calls of a scroll primitive and of a scheduler
Scrolls == Made("scrollWindow") \cup Made("scrollDroppable")

Schedules == Made("scheduleWindowScroll") \cup Made("scheduleDroppableScroll")

\* the claims' "wider or taller than"
WiderOrTaller(subject, frame) ==
  Less(frame.width, subject.width) \/ Less(frame.height, subject.height)

\* v is the viewport of the last call, as far as the call asked for it
ViewportIs(v) == \A i \in Made("getViewport") : calls[i].ret = Some(v)

\* the last step was a call of onStateChange while dragging, with a payload
HasDrag ==
  handler = "onStateChange" /\ current.phase = "DRAGGING" /\ ~IsNull(current.drag)

Drag == current.drag[1]

Margin == current.dimension.draggable[Drag.initial.descriptor.id].page.withMargin

Center == Drag.current.page.center

Selection == Drag.current.client.selection

IsFluid == HasDrag /\ Drag.initial.autoScrollMode = "FLUID"

IsJumpMode == HasDrag /\ Drag.initial.autoScrollMode = "JUMP"

\* a jump request with a destination
IsJump ==
  IsJumpMode /\ ~IsNull(Drag.scrollJumpRequest) /\ ~IsNull(Drag.impact.destination)

Request == Drag.scrollJumpRequest[1]

Destination == current.dimension.droppable[Drag.impact.destination[1].droppableId]

\* the frame of the closest scrollable of a droppable that has one
FrameOf(id) == current.dimension.droppable[id].viewport.closestScrollable[1].frame

TooBigForViewport ==
  \E v \in Viewports : ViewportIs(v) /\ WiderOrTaller(Margin, v)

\* the destination of the jump has a closest scrollable; the item fits in it
HasFrame == IsJump /\ ~IsNull(Destination.viewport.closestScrollable)

FitsFrame ==
  HasFrame /\ ~WiderOrTaller(Margin, FrameOf(Destination.descriptor.id))

\* jumpScroll gets as far as the window (line 266)
WindowReached ==
  IsJump /\ (~HasFrame \/ (FitsFrame /\ Said("canScrollDroppable", FALSE)))

\* move is called once, with the selection moved by offset
MovedOnceBy(offset) ==
  /\ Cardinality(Made("move")) = 1
  /\ \A i \in Made("move") :
       calls[i].args = << Drag.initial.descriptor.id, add(Selection, offset),
                          origin, TRUE >>

----------------------------------------------------------------------------
(* Properties *)

\* C1: a window or droppable scroll that is scheduled and still pending when
\* onStateChange is told that the dragging phase has ended (previous.phase
\* is DRAGGING, current.phase is not) is never executed by a later animation
\* frame, even when it was scheduled by the call just before.
C1_NoScrollAfterDragEnd ==
  \A i \in ByFrame : ~calls[i].frame[1].pendingAtDragEnd

\* the drag has just ended while a window scroll and a droppable scroll were
\* both pending, and both requests have been cancelled
C1_Witness ==
  /\ handler = "onStateChange"
  /\ current.phase # "DRAGGING"
  /\ Cardinality(Made("cancelAnimationFrame")) = 2
  /\ animationFrames = << >>

\* C2: in one call of fluidScroll the window comes before any droppable: when
\* a window scroll is required and canScrollWindow accepts it,
\* scheduleWindowScroll is called with that scroll and
\* scheduleDroppableScroll is not called; scheduleDroppableScroll is only
\* called in a call that schedules no window scroll, and nothing is asked
\* about a droppable before the window has been dealt with.
C2_WindowBeforeDroppable ==
  IsFluid =>
    /\ \A v \in Viewports :
         ( /\ ViewportIs(v)
           /\ ~WiderOrTaller(Margin, v)
           /\ ~IsNull(getRequiredScroll(v, Center)) ) =>
           /\ \E i \in Made("canScrollWindow") :
                calls[i].args = getRequiredScroll(v, Center)
           /\ Said("canScrollWindow", TRUE) =>
                /\ Cardinality(Made("scheduleWindowScroll")) = 1
                /\ \A i \in Made("scheduleWindowScroll") :
                     calls[i].args = getRequiredScroll(v, Center)
                /\ Made("scheduleDroppableScroll") = {}
    /\ Made("scheduleDroppableScroll") # {} => Made("scheduleWindowScroll") = {}
    /\ \A w \in Made("canScrollWindow") \cup Made("scheduleWindowScroll") :
         \A d \in Made("getScrollableDroppableOver") \cup Made("canScrollDroppable")
                    \cup Made("scheduleDroppableScroll") : w < d

\* a fluid call has scheduled a window scroll
C2_Witness ==
  IsFluid /\ Said("canScrollWindow", TRUE) /\ Made("scheduleWindowScroll") # {}

\* C3: in FLUID and in JUMP mode, a call of onStateChange schedules and
\* performs no window scroll when the dragged item (withMargin) is wider or
\* taller than the viewport, and schedules and performs no droppable scroll
\* when it is wider or taller than the frame of the closest scrollable of the
\* candidate droppable.
C3_TooBigNeverScrolls ==
  HasDrag =>
    /\ (\E v \in Viewports : WiderOrTaller(Margin, v) /\ ViewportIs(v))
         => Made("scheduleWindowScroll") \cup Made("scrollWindow") = {}
    /\ \A i \in Made("scheduleDroppableScroll") \cup Made("scrollDroppable") :
         /\ ~IsNull(current.dimension.droppable[calls[i].args[1]]
                      .viewport.closestScrollable)
         /\ ~WiderOrTaller(Margin, FrameOf(calls[i].args[1]))
    /\ (IsFluid /\ \E i \in Made("getScrollableDroppableOver") :
          /\ ~IsNull(calls[i].ret)
          /\ WiderOrTaller(Margin, FrameOf(calls[i].ret[1])))
         => Made("scheduleDroppableScroll") = {}
    /\ (HasFrame /\ ~FitsFrame)
         => Made("scrollDroppable") \cup Made("scheduleDroppableScroll") = {}

\* a fluid call for an item that fits the viewport but not the frame of the
\* droppable it is over, and the droppable is asked for
C3_Witness ==
  /\ IsFluid
  /\ ~TooBigForViewport
  /\ \E i \in Made("getScrollableDroppableOver") :
       /\ ~IsNull(calls[i].ret)
       /\ WiderOrTaller(Margin, FrameOf(calls[i].ret[1]))

\* C4: in FLUID mode, when the dragged item (withMargin) is wider or taller
\* than the viewport, the call schedules nothing (neither a window nor a
\* droppable scroll) and does not compute a required scroll.
C4_FluidTooBigForViewport ==
  (IsFluid /\ TooBigForViewport) =>
    /\ Schedules = {}
    /\ Made("getRequiredScroll") = {}
    /\ Made("getScrollableDroppableOver") = {}
    /\ Made("requestAnimationFrame") = {}

\* a fluid call for an item taller than the viewport, with its center where
\* the window would have to scroll
C4_Witness ==
  /\ IsFluid
  /\ TooBigForViewport
  /\ \E v \in Viewports : ~IsNull(getRequiredScroll(v, Center))

\* C5: in JUMP mode, when the destination has a closest scrollable that the
\* item fits in, canScrollDroppable accepts the request and canScrollWindow
\* refuses it: if getDroppableOverlap answers an overlap, move is called
\* exactly once, with the client selection moved by that overlap, and then
\* scrollDroppable(id, request); if it answers none, move is not called and
\* scrollDroppable(id, request) is.
C5_DroppableOverlap ==
  FitsFrame =>
    /\ Made("canScrollDroppable") # {}
    /\ Said("canScrollDroppable", TRUE) => Made("canScrollWindow") # {}
    /\ (Said("canScrollDroppable", TRUE) /\ Said("canScrollWindow", FALSE)) =>
         /\ Cardinality(Made("getDroppableOverlap")) = 1
         /\ Cardinality(Made("scrollDroppable")) = 1
         /\ Made("scrollWindow") = {}
         /\ Schedules = {}
         /\ \A j \in Made("scrollDroppable") :
              /\ calls[j].args = << Destination.descriptor.id, Request >>
              /\ \A i \in Made("move") : i < j
         /\ \A k \in Made("getDroppableOverlap") :
              IF IsNull(calls[k].ret) THEN Made("move") = {}
              ELSE MovedOnceBy(calls[k].ret[1])

\* the droppable scrolls, the window cannot, and there is an overlap
C5_Witness ==
  /\ FitsFrame
  /\ Said("canScrollDroppable", TRUE)
  /\ Said("canScrollWindow", FALSE)
  /\ \E k \in Made("getDroppableOverlap") : ~IsNull(calls[k].ret)
  /\ Made("move") # {}

\* C6: in JUMP mode with a request and a destination, move is called once
\* with the client selection moved by the whole request, and no scroll
\* primitive is called, when (a) the destination has a closest scrollable and
\* the item is too big for its frame, (b) the window is reached and the item
\* is too big for the viewport, (c) the window is reached and canScrollWindow
\* refuses the request.
C6_MoveInsteadOfScroll ==
  ( \/ (HasFrame /\ ~FitsFrame)
    \/ (WindowReached /\ TooBigForViewport)
    \/ (WindowReached /\ Said("canScrollWindow", FALSE)) ) =>
    /\ MovedOnceBy(Request)
    /\ Scrolls = {}
    /\ Schedules = {}

\* the droppable and the window both refuse the request of an item that fits
C6_Witness ==
  /\ FitsFrame
  /\ WindowReached
  /\ ~TooBigForViewport
  /\ Said("canScrollWindow", FALSE)
  /\ Made("move") # {}

\* C7: in JUMP mode, when the window is reached, the item fits the viewport
\* and canScrollWindow accepts the request: scrollWindow(request) is called
\* exactly once, inside the call; if getWindowOverlap answers an overlap,
\* move is called with that overlap before scrollWindow, and if it answers
\* none move is not called.
C7_WindowOverlapThenScroll ==
  (WindowReached /\ ~TooBigForViewport /\ Said("canScrollWindow", TRUE)) =>
    /\ Cardinality(Made("scrollWindow")) = 1
    /\ Cardinality(Made("getWindowOverlap")) = 1
    /\ Made("scrollDroppable") = {}
    /\ Schedules = {}
    /\ \A j \in Made("scrollWindow") :
         /\ calls[j].args = << Request >>
         /\ IsNull(calls[j].frame)
         /\ \A i \in Made("move") : i < j
    /\ \A k \in Made("getWindowOverlap") :
         IF IsNull(calls[k].ret) THEN Made("move") = {}
         ELSE MovedOnceBy(calls[k].ret[1])

\* the window scrolls and there is an overlap
C7_Witness ==
  /\ WindowReached
  /\ Said("canScrollWindow", TRUE)
  /\ \E k \in Made("getWindowOverlap") : ~IsNull(calls[k].ret)
  /\ Made("move") # {}
  /\ Made("scrollWindow") # {}

\* the last call neither scheduled nor requested a frame, and every scroll
\* it made it made itself
NothingScheduled ==
  /\ Schedules = {}
  /\ Made("requestAnimationFrame") = {}
  /\ \A i \in Scrolls : IsNull(calls[i].frame)

\* C8: a call of onStateChange for a drag in JUMP mode never creates a
\* pending scheduled scroll: the scrolls it causes are made inside the call,
\* and the schedulers and the pending animation frame requests are as before.
C8_JumpNeverSchedules ==
  [][ (handler' = "onStateChange" /\ IsJumpMode') =>
        /\ NothingScheduled'
        /\ UNCHANGED << scheduleWindowScroll, scheduleDroppableScroll,
                        animationFrames >> ]_vars

\* a jump call has scrolled a droppable
C8_Witness ==
  IsJump /\ Made("scrollDroppable") # {}

\* C9: for the window and for the droppable scheduler separately, the calls
\* of the scheduler made between two animation frames lead to at most one
\* call of the scroll primitive on the next frame, with the arguments of the
\* latest call of the scheduler.
C9_LatestCallWins ==
  [][ handler' = "animationFrame" =>
        \A name \in Schedulers :
          LET fn == IF name = "scheduleWindowScroll" THEN "scrollWindow"
                    ELSE "scrollDroppable"
              done == {i \in 1 .. Len(calls') : calls'[i].op = fn}
          IN  /\ Cardinality(done) <= 1
              /\ \A i \in done : /\ ~IsNull(latest[name])
                                 /\ calls'[i].args = latest[name][1] ]_vars

\* a scheduler is called while its frame is pending: no new frame is
\* requested, and the arguments are not those it was called with before
C9_Witness ==
  /\ IsFluid
  /\ \E i \in Made("scheduleWindowScroll") :
       /\ Made("requestAnimationFrame") = {}
       /\ ~IsNull(scheduleWindowScroll.frameId)
       /\ scheduleWindowScroll.lastArgs = calls[i].args

\* the last step was a call that onStateChange aborts: a dragging phase
\* without a payload, or a jump request without a destination
Aborted ==
  /\ handler = "onStateChange"
  /\ current.phase = "DRAGGING"
  /\ \/ IsNull(current.drag)
     \/ /\ IsJumpMode
        /\ ~IsNull(Drag.scrollJumpRequest)
        /\ IsNull(Drag.impact.destination)

\* the last call did nothing but report
OnlyReported == \A i \in 1 .. Len(calls) : calls[i].op = "console.error"

\* C10: a call of onStateChange with current.phase = DRAGGING and no drag
\* payload, or in JUMP mode with a scrollJumpRequest and no destination, has
\* no side effect: no scroll primitive, no scheduling, no move, and the
\* pending scheduled scrolls are left as they are (nothing is cancelled).
C10_AbortedWithoutEffect ==
  [][ Aborted' =>
        /\ OnlyReported'
        /\ UNCHANGED << scheduleWindowScroll, scheduleDroppableScroll,
                        animationFrames >> ]_vars

\* a jump request without a destination while a scheduled scroll is pending
C10_Witness ==
  /\ Aborted
  /\ ~IsNull(current.drag)
  /\ animationFrames # << >>

\* the last call was for a drag in JUMP mode that carries no request
JumpWithoutRequest == IsJumpMode /\ IsNull(Drag.scrollJumpRequest)

\* C11: a call of onStateChange has no effect (no scroll, no scheduling, no
\* move, no cancellation: it calls nothing, and the schedulers and the
\* pending requests are as before) when (a) current.phase is DRAGGING, the
\* mode is JUMP and there is no scrollJumpRequest, or (b) neither
\* previous.phase nor current.phase is DRAGGING.
C11_NoEffect ==
  [][ ( /\ handler' = "onStateChange"
        /\ \/ JumpWithoutRequest'
           \/ (current.phase # "DRAGGING" /\ current'.phase # "DRAGGING") ) =>
        /\ calls' = << >>
        /\ UNCHANGED << scheduleWindowScroll, scheduleDroppableScroll,
                        animationFrames >> ]_vars

\* a jump update without a request arrives while a scheduled scroll is pending
C11_Witness ==
  JumpWithoutRequest /\ calls = << >> /\ animationFrames # << >>

----------------------------------------------------------------------------
(* Claims about getSpeed and getRequiredScroll *)

\* the size of the container along the axis of an edge
SizeAlong(edge) ==
  IF edge \in {"top", "bottom"} THEN solver.container.height
  ELSE solver.container.width

\* the distance of the center to an edge of the container
DistanceTo(edge) ==
  CASE edge = "top" -> Minus(solver.center.y, solver.container.top)
    [] edge = "bottom" -> Minus(solver.container.bottom, solver.center.y)
    [] edge = "left" -> Minus(solver.center.x, solver.container.left)
    [] edge = "right" -> Minus(solver.container.right, solver.center.x)

StartFrom(edge) == Times(SizeAlong(edge), Num(1, 4))

MaxSpeedAt(edge) == Times(SizeAlong(edge), Num(1, 20))

TopSpeed == N(28)

StrictlyBetween(edge) ==
  Less(MaxSpeedAt(edge), DistanceTo(edge))
    /\ Less(DistanceTo(edge), StartFrom(edge))

SpeedInRange(edge) ==
  /\ LessEq(StartFrom(edge), DistanceTo(edge)) => solver.speed[edge] = N(0)
  /\ LessEq(DistanceTo(edge), MaxSpeedAt(edge)) => solver.speed[edge] = TopSpeed
  /\ StrictlyBetween(edge) =>
       Less(N(0), solver.speed[edge]) /\ Less(solver.speed[edge], TopSpeed)

\* C12: with startFrom a quarter and maxSpeedAt a twentieth of the size of
\* the container, getSpeed is 0 for a distance at or beyond startFrom, is
\* maxScrollSpeed (28) for a distance at or below maxSpeedAt (a negative one
\* included), is strictly between 0 and 28 for a distance strictly between
\* the two, and never grows when the distance grows.
C12_SpeedOfDistance ==
  [][ solver'.solved =>
        \A edge \in Edges :
          /\ SpeedInRange(edge)'
          /\ (solver.solved /\ LessEq(DistanceTo(edge), DistanceTo(edge)')) =>
               LessEq(solver.speed[edge]', solver.speed[edge]) ]_vars

\* the center is in the acceleration plane of an edge, the speed is in between
C12_Witness ==
  /\ solver.solved
  /\ \E edge \in Edges :
       /\ StrictlyBetween(edge)
       /\ Less(N(0), solver.speed[edge]) /\ Less(solver.speed[edge], TopSpeed)
  /\ \E edge \in Edges : Less(DistanceTo(edge), N(0))

\* the center is strictly nearer the bottom / the right
NearerBottom == Less(DistanceTo("bottom"), DistanceTo("top"))

NearerRight == Less(DistanceTo("right"), DistanceTo("left"))

\* the speed of each axis: that of the nearer edge
SpeedY == IF NearerBottom THEN solver.speed["bottom"] ELSE solver.speed["top"]

SpeedX == IF NearerRight THEN solver.speed["right"] ELSE solver.speed["left"]

\* C13: getRequiredScroll returns null if and only if the speed of both axes
\* is exactly zero; otherwise a component that is not zero is positive when
\* the center is strictly nearer the bottom / right edge and negative when it
\* is nearer, or as near, the top / left edge.
C13_NullOrSigned ==
  solver.solved =>
    /\ IsNull(solver.required) <=> (SpeedX = N(0) /\ SpeedY = N(0))
    /\ ~IsNull(solver.required) =>
         LET required == solver.required[1]
         IN  /\ required.x # N(0) =>
                  IF NearerRight THEN Less(N(0), required.x)
                  ELSE Less(required.x, N(0))
             /\ required.y # N(0) =>
                  IF NearerBottom THEN Less(N(0), required.y)
                  ELSE Less(required.y, N(0))

\* a scroll up and to the right is required
C13_Witness ==
  /\ solver.solved
  /\ ~IsNull(solver.required)
  /\ NearerRight /\ ~NearerBottom
  /\ Less(N(0), solver.required[1].x) /\ Less(solver.required[1].y, N(0))

\* the example: a center 10 above the bottom edge of a viewport 1000 by 800
Example ==
  /\ solver.solved
  /\ solver.container =
       [top |-> N(0), left |-> N(0), right |-> N(1000), bottom |-> N(800),
        width |-> N(1000), height |-> N(800)]
  /\ solver.center = [x |-> N(500), y |-> N(790)]

\* C14: for the viewport {top: 0, left: 0, right: 1000, bottom: 800, width:
\* 1000, height: 800} and the center {x: 500, y: 790}, getRequiredScroll
\* returns {x: 0, y: 28}; vertically startFrom is 200 and maxSpeedAt is 40.
C14_Example ==
  Example =>
    /\ solver.required = Some([x |-> N(0), y |-> N(28)])
    /\ getPixelThresholds(solver.container, vertical).startFrom = N(200)
    /\ getPixelThresholds(solver.container, vertical).maxSpeedAt = N(40)

C14_Witness ==
  Example /\ ~IsNull(solver.required) /\ solver.speed["bottom"] = N(28)

----------------------------------------------------------------------------
(* Claims about the surfaces that scroll *)

\* C15: on an animation frame at most one of the two surfaces (window,
\* droppable) receives a fluid scroll: scrollWindow and scrollDroppable are
\* never both called by the callbacks of one frame.
C15_OneSurfacePerFrame ==
  handler = "animationFrame" =>
    ~(Made("scrollWindow") # {} /\ Made("scrollDroppable") # {})

\* the call at i has the arguments that the collaborator op accepted before
AcceptedBy(op, i) ==
  \E j \in Made(op) :
    j < i /\ calls[j].args = calls[i].args /\ calls[j].ret = Some(TRUE)

\* C16: a call of onStateChange schedules (fluid) or performs (jump) a scroll
\* of the window by d only after canScrollWindow(d) has answered true in
\* that call, and a scroll of a droppable by d only after
\* canScrollDroppable(droppable, d) has answered true in that call.
C16_ScrollsAreAccepted ==
  handler = "onStateChange" =>
    /\ \A i \in Made("scheduleWindowScroll") \cup Made("scrollWindow") :
         AcceptedBy("canScrollWindow", i)
    /\ \A i \in Made("scheduleDroppableScroll") \cup Made("scrollDroppable") :
         AcceptedBy("canScrollDroppable", i)

\* a fluid update schedules a scroll of the droppable it is over
C16_Witness ==
  /\ IsFluid
  /\ Said("canScrollDroppable", TRUE)
  /\ \E i \in Made("scheduleDroppableScroll") : AcceptedBy("canScrollDroppable", i)

\* C17: in JUMP mode, when the destination has a closest scrollable that the
\* item fits in and canScrollDroppable accepts the request, scrollWindow is
\* not called in that call; when canScrollWindow accepts the request as
\* well, scrollDroppable(id, request) is called once, the overlap is not
\* asked for and move is not called.
C17_DroppableBeforeWindow ==
  (FitsFrame /\ Said("canScrollDroppable", TRUE)) =>
    /\ Made("scrollWindow") = {}
    /\ Said("canScrollWindow", TRUE) =>
         /\ Cardinality(Made("scrollDroppable")) = 1
         /\ \A i \in Made("scrollDroppable") :
              /\ calls[i].args = << Destination.descriptor.id, Request >>
              /\ IsNull(calls[i].frame)
         /\ Made("move") = {}
         /\ Made("getDroppableOverlap") = {}
         /\ Schedules = {}

\* both the droppable and the window can scroll: the droppable is scrolled
C17_Witness ==
  /\ FitsFrame
  /\ Said("canScrollDroppable", TRUE)
  /\ Said("canScrollWindow", TRUE)
  /\ Made("scrollDroppable") # {}
  /\ Made("scrollWindow") = {}

\* C18: a call of onStateChange in JUMP mode with a drag, a scrollJumpRequest
\* and a destination calls move or a scroll primitive (or both): move at
\* most once, a scroll primitive at most once, and never both scrollWindow
\* and scrollDroppable.
C18_JumpRequestNotDropped ==
  IsJump =>
    /\ Made("move") # {} \/ Scrolls # {}
    /\ Cardinality(Made("move")) <= 1
    /\ Cardinality(Scrolls) <= 1
    /\ Made("scrollWindow") = {} \/ Made("scrollDroppable") = {}

\* a jump both moves the item and scrolls; another only moves it
C18_Witness ==
  /\ IsJump
  /\ Cardinality(Made("move")) = 1
  /\ Cardinality(Scrolls) = 1

\* C19: a scroll made on an animation frame reflects the latest update: if
\* the call of onStateChange before the frame was a FLUID update that did not
\* schedule a scroll of a target, that target is not scrolled on the frame.
C19_FrameReflectsLatestUpdate ==
  [][ (IsFluid /\ handler' = "animationFrame") =>
        /\ Made("scheduleWindowScroll") = {} =>
             \A i \in 1 .. Len(calls') : calls'[i].op # "scrollWindow"
        /\ Made("scheduleDroppableScroll") = {} =>
             \A i \in 1 .. Len(calls') : calls'[i].op # "scrollDroppable" ]_vars

=============================================================================
